---- MODULE Spec2Model ----
(***************************************************************************)
(* Model of src/definitions/x509/x5chain.rs: the X509 wrapper, the X5Chain *)
(* container with into_cbor and validate, the wire decoder                 *)
(* validate_x5chain and the chain Builder.                                 *)
(*                                                                         *)
(* Octet strings are sequences of naturals below 256.  A certificate is a  *)
(* reduced DER structure                                                   *)
(*     <<48, len, spki, sig, notBefore, notAfter>> [ \o <<ext>> ]          *)
(* 48 is the SEQUENCE tag, len the short-form content length, spki the     *)
(* subject key (1 and 2 are P-256 keys, any other value is a key of        *)
(* another curve), sig the key that signed the to-be-signed part (0 is a   *)
(* signature field that does not decode), notBefore/notAfter the validity  *)
(* window and ext an optional extension octet.                             *)
(***************************************************************************)
EXTENDS Integers, Sequences, FiniteSets, TLC

\* Longest chain handed to X5Chain::from
MaxChain == 3
\* Longest CBOR array handed to validate_x5chain
MaxArray == 3
\* Most certificates accumulated by one Builder
MaxCerts == 3

VARIABLES
    builder,  \* the live Builder: [live, certs]; certs is Builder.certs
    added,    \* history: canonical DER of each certificate a with_* call accepted
    calls,    \* history: the with_* calls accepted by the builder, [op, der], kept
              \* after build as the making of the chain it built
    chain,    \* the X5Chain at hand, as the octet strings of its NonEmptyVec<X509>;
              \* <<>> while there is none
    wire,     \* the CBOR value of the x5chain header in flight; CborNull while there is none
    out       \* what the last call returned

vars == <<builder, added, calls, chain, wire, out>>

----------------------------------------------------------------------------
(* Library layer: DER, PEM and CBOR codecs as the code uses them.          *)

\* x509_cert::Certificate::from_der: strict DER, no trailing data.
CertificateFromDer(bytes) ==
    IF /\ Len(bytes) \in {6, 7}
       /\ bytes[1] = 48
       /\ bytes[2] = Len(bytes) - 2
    THEN [ok |-> TRUE,
          cert |-> [spki |-> bytes[3], sig |-> bytes[4],
                    notBefore |-> bytes[5], notAfter |-> bytes[6],
                    ext |-> SubSeq(bytes, 7, Len(bytes))]]
    ELSE [ok |-> FALSE,
          cert |-> [spki |-> 0, sig |-> 0, notBefore |-> 0, notAfter |-> 0, ext |-> <<>>]]

\* der::Encode::to_der of a Certificate: the canonical encoding.
CertificateToDer(cert) ==
    <<48, 4 + Len(cert.ext), cert.spki, cert.sig, cert.notBefore, cert.notAfter>> \o cert.ext

\* der::Encode::to_der of a der::Length: the DER length octets of n.
LengthToDer(n) ==
    IF n < 128 THEN <<n>>
    ELSE IF n < 256 THEN <<129, n>>
    ELSE <<130, (n \div 256) % 256, n % 256>>

\* der::Encode::encode_to_vec: appends the encoding to buf and returns its Length.
EncodeToVec(cert, buf) ==
    [buf |-> buf \o CertificateToDer(cert), length |-> Len(CertificateToDer(cert))]

\* pem_rfc7468::decode_vec: strips the encapsulation boundaries (octet 45
\* before and after the body) and returns the body's octets.
PemDecodeVec(data) ==
    IF Len(data) >= 2 /\ data[1] = 45 /\ data[Len(data)] = 45
    THEN [ok |-> TRUE, bytes |-> SubSeq(data, 2, Len(data) - 1)]
    ELSE [ok |-> FALSE, bytes |-> <<>>]

\* One CBOR data item read at position p as a u8: 0..23 is the value itself,
\* 24 announces a one-octet value.  next = 0 means the item is not a u8.
CborU8At(bytes, p) ==
    IF p > Len(bytes) THEN [next |-> 0, v |-> 0]
    ELSE IF bytes[p] <= 23 THEN [next |-> p + 1, v |-> bytes[p]]
    ELSE IF bytes[p] = 24 /\ p + 1 <= Len(bytes) THEN [next |-> p + 2, v |-> bytes[p + 1]]
    ELSE [next |-> 0, v |-> 0]

RECURSIVE CborItems(_, _, _, _)
CborItems(bytes, p, n, acc) ==
    IF n = 0
    THEN (IF p = Len(bytes) + 1 THEN [ok |-> TRUE, v |-> acc]
          ELSE [ok |-> FALSE, v |-> <<>>])           \* trailing data
    ELSE LET it == CborU8At(bytes, p) IN
         IF it.next = 0 THEN [ok |-> FALSE, v |-> <<>>]
         ELSE CborItems(bytes, it.next, n - 1, Append(acc, it.v))

\* serde_cbor::from_slice::<Vec<u8>>: a Vec<u8> deserializes from a CBOR array
\* (head 128+n, or 152 followed by n) of u8 items and from nothing else; in
\* particular not from a byte string and not from DER, whose first octet 48
\* is a CBOR negative integer.
FromSliceVecU8(bytes) ==
    IF Len(bytes) = 0 THEN [ok |-> FALSE, v |-> <<>>]
    ELSE IF bytes[1] >= 128 /\ bytes[1] <= 151
         THEN CborItems(bytes, 2, bytes[1] - 128, <<>>)
    ELSE IF bytes[1] = 152 /\ Len(bytes) >= 2
         THEN CborItems(bytes, 3, bytes[2], <<>>)
    ELSE [ok |-> FALSE, v |-> <<>>]

----------------------------------------------------------------------------
(* CBOR values (serde_cbor::Value) in one record shape.                    *)

CborInteger(n) == [t |-> "integer", int |-> n, bytes |-> <<>>, items |-> <<>>]
CborBytes(b)   == [t |-> "bytes", int |-> 0, bytes |-> b, items |-> <<>>]
CborArray(s)   == [t |-> "array", int |-> 0, bytes |-> <<>>, items |-> s]
\* an array element: an integer or a byte string
CborElem(t, n, b) == [t |-> t, int |-> n, bytes |-> b]
CborNull == [t |-> "none", int |-> 0, bytes |-> <<>>, items |-> <<>>]

----------------------------------------------------------------------------
(* Trust-anchor collaborator (definitions/x509/trust_anchor.rs).           *)

\* Option<TrustAnchorRegistry>: anchors are named by their key.
RegistryNone == [some |-> FALSE, anchors |-> {}]
RegistrySome(a) == [some |-> TRUE, anchors |-> a]

ValidationError(pass, idx, msg) == [pass |-> pass, idx |-> idx, msg |-> msg]

\* check_validity_period: one error per violated edge of the window.
check_validity_period(c, idx, now) ==
    (IF c.notAfter < now
     THEN <<ValidationError("validity", idx, "Expired certificate")>> ELSE <<>>)
    \o
    (IF c.notBefore > now
     THEN <<ValidationError("validity", idx, "Not yet valid certificate")>> ELSE <<>>)

\* find_anchor: Ok(None) without a registry or without a match,
\* Ok(Some(anchor)) when the registry holds the certificate's issuer,
\* Err when the registry holds an anchor that cannot be read (anchor 0).
find_anchor(cert, registry) ==
    IF ~registry.some THEN [ok |-> TRUE, some |-> FALSE, anchor |-> 0]
    ELSE IF 0 \in registry.anchors THEN [ok |-> FALSE, some |-> FALSE, anchor |-> 0]
    ELSE IF cert.sig \in registry.anchors THEN [ok |-> TRUE, some |-> TRUE, anchor |-> cert.sig]
    ELSE [ok |-> TRUE, some |-> FALSE, anchor |-> 0]

\* Keys of curve P-256, the curve check_signature fixes (NistP256).
P256Keys == {1, 2}

\* validate_with_trust_anchor: the anchor's own checks on the certificate;
\* an anchor whose key is not of the supported curve cannot vouch for it.
validate_with_trust_anchor(cert, idx, anchor) ==
    IF anchor \in P256Keys THEN <<>>
    ELSE <<ValidationError("anchor", idx, "trust anchor cannot verify the certificate")>>

----------------------------------------------------------------------------
(* X509 and X5Chain.                                                       *)

\* X509::public_key::<NistP256>
public_key(bytes) ==
    LET p == CertificateFromDer(bytes) IN
    IF ~p.ok THEN [ok |-> FALSE, key |-> 0, msg |-> "DecodingError"]
    ELSE IF p.cert.spki \notin P256Keys
         THEN [ok |-> FALSE, key |-> 0,
               msg |-> "could not parse public key from pkcs8 spki"]
    ELSE [ok |-> TRUE, key |-> p.cert.spki, msg |-> ""]

\* check_signature(target, issuer): "" is Ok(()), anything else the error.
check_signature(target, issuer) ==
    LET parent_public_key == public_key(issuer)
        child_cert == CertificateFromDer(target)
    IN  IF ~parent_public_key.ok THEN parent_public_key.msg
        ELSE IF ~child_cert.ok THEN "DecodingError"
        ELSE IF child_cert.cert.sig = 0 THEN "signature does not decode"
        ELSE IF child_cert.cert.sig # parent_public_key.key THEN "signature error"
        ELSE ""

\* into_cbor with a fault: the array form whatever the length.
into_cborAlwaysArray(x5chain) ==
    CborArray([i \in 1..Len(x5chain) |-> [t |-> "bytes", int |-> 0, bytes |-> x5chain[i]]])

\* X5Chain::into_cbor
into_cbor(x5chain) ==
    IF Len(x5chain) = 1
    THEN CborBytes(x5chain[1])
    ELSE CborArray([i \in 1..Len(x5chain) |-> CborElem("bytes", 0, x5chain[i])])

RECURSIVE SignaturePass(_, _, _)
\* SignaturePass with a fault: a failing pair is reported only while no
\* earlier pair has failed.
SignaturePassSuppressing(x5chain, i, errors) ==
    IF i + 1 > Len(x5chain) THEN errors
    ELSE LET e == check_signature(x5chain[i], x5chain[i + 1]) IN
         SignaturePass(x5chain, i + 1,
             IF e = "" \/ errors # <<>> THEN errors
             ELSE Append(errors, ValidationError("signature", i, e)))

\* validate, first loop: x5chain.windows(2), window i is (x5chain[i], x5chain[i+1]).
SignaturePass(x5chain, i, errors) ==
    IF i + 1 > Len(x5chain) THEN errors
    ELSE LET e == check_signature(x5chain[i], x5chain[i + 1]) IN
         SignaturePass(x5chain, i + 1,
             IF e = "" THEN errors
             ELSE Append(errors, ValidationError("signature", i, e)))

RECURSIVE ValidityPass(_, _, _, _)
\* ValidityPass with a fault: the last certificate is left out, as in a loop
\* over adjacent pairs.
ValidityPassPairsOnly(x5chain, i, now, errors) ==
    IF i >= Len(x5chain) THEN errors
    ELSE LET cert == CertificateFromDer(x5chain[i]) IN
         ValidityPass(x5chain, i + 1, now,
             IF cert.ok THEN errors \o check_validity_period(cert.cert, i, now)
             ELSE Append(errors, ValidationError("validity", i, "DecodingError")))

\* validate, second loop: every certificate of the chain.
ValidityPass(x5chain, i, now, errors) ==
    IF i > Len(x5chain) THEN errors
    ELSE LET cert == CertificateFromDer(x5chain[i]) IN
         ValidityPass(x5chain, i + 1, now,
             IF cert.ok THEN errors \o check_validity_period(cert.cert, i, now)
             ELSE Append(errors, ValidationError("validity", i, "DecodingError")))

\* AnchorPass with a fault: a lookup that finds no anchor adds nothing.
AnchorPassSilent(x5chain, registry, errors) ==
    IF Len(x5chain) = 0
    THEN Append(errors, ValidationError("anchor", 0, "Empty certificate chain"))
    ELSE LET n == Len(x5chain)
             cert == CertificateFromDer(x5chain[n])
             anchor == find_anchor(cert.cert, registry)
         IN  IF ~cert.ok
             THEN Append(errors, ValidationError("anchor", n, "DecodingError"))
             ELSE IF ~anchor.ok
             THEN Append(errors, ValidationError("anchor", n, "trust anchor lookup failed"))
             ELSE IF anchor.some
             THEN errors \o validate_with_trust_anchor(cert.cert, n, anchor.anchor)
             ELSE errors

\* validate, last part: the last certificate against the trust anchors.
AnchorPass(x5chain, registry, errors) ==
    IF Len(x5chain) = 0
    THEN Append(errors, ValidationError("anchor", 0, "Empty certificate chain"))
    ELSE LET n == Len(x5chain)
             cert == CertificateFromDer(x5chain[n])
             anchor == find_anchor(cert.cert, registry)
         IN  IF ~cert.ok
             THEN Append(errors, ValidationError("anchor", n, "DecodingError"))
             ELSE IF ~anchor.ok
             THEN Append(errors, ValidationError("anchor", n, "trust anchor lookup failed"))
             ELSE IF anchor.some
             THEN errors \o validate_with_trust_anchor(cert.cert, n, anchor.anchor)
             ELSE Append(errors, ValidationError("anchor", n, "No matching trust anchor found"))

\* validate with a fault: it returns after the first pass that found errors.
validateFailFast(x5chain, registry, now) ==
    LET sig == SignaturePass(x5chain, 1, <<>>)
        val == ValidityPass(x5chain, 1, now, sig)
    IN  IF sig # <<>> THEN sig
        ELSE IF val # <<>> THEN val
        ELSE AnchorPass(x5chain, registry, val)

\* X5Chain::validate; now is the clock check_validity_period reads.
validate(x5chain, registry, now) ==
    AnchorPass(x5chain, registry,
        ValidityPass(x5chain, 1, now,
            SignaturePass(x5chain, 1, <<>>)))

----------------------------------------------------------------------------
(* Wire decoder.                                                           *)

\* NonEmptyVec::try_from (definitions/helpers): fails on an empty vector.
NonEmptyVecTryFrom(v) == [ok |-> Len(v) >= 1, v |-> v]

\* has_unique_elements with a fault: nothing is ever a duplicate.
has_unique_elementsAlways(iter, i, uniq) == TRUE

\* has_unique_elements: iter.all(|x| uniq.insert(x))
RECURSIVE has_unique_elements(_, _, _)
has_unique_elements(iter, i, uniq) ==
    IF i > Len(iter) THEN TRUE
    ELSE IF iter[i] \in uniq THEN FALSE
    ELSE has_unique_elements(iter, i + 1, uniq \cup {iter[i]})

\* What validate_x5chain returns: Ok(errors) or Err(err); validated tells
\* whether X5Chain::validate ran, chain is the X5Chain it ran on.
Decoded(ok, err, errors, validated, x5chain) ==
    [ok |-> ok, err |-> err, errors |-> errors, validated |-> validated, chain |-> x5chain]

RECURSIVE DecodeArray(_, _, _)
\* DecodeArray with a fault: an element that is no byte string is skipped.
DecodeArraySkipping(x509s, i, acc) ==
    IF i > Len(x509s) THEN [ok |-> TRUE, err |-> "", chain |-> acc]
    ELSE IF x509s[i].t = "bytes"
         THEN LET d == FromSliceVecU8(x509s[i].bytes) IN
              IF d.ok THEN DecodeArray(x509s, i + 1, Append(acc, d.v))
              ELSE [ok |-> FALSE, err |-> "cbor decoding error", chain |-> <<>>]
    ELSE DecodeArray(x509s, i + 1, acc)

\* validate_x5chain, the loop of the Array arm: for x509 in x509s
DecodeArray(x509s, i, acc) ==
    IF i > Len(x509s) THEN [ok |-> TRUE, err |-> "", chain |-> acc]
    ELSE IF x509s[i].t = "bytes"
         THEN LET d == FromSliceVecU8(x509s[i].bytes) IN
              IF d.ok THEN DecodeArray(x509s, i + 1, Append(acc, d.v))
              ELSE [ok |-> FALSE, err |-> "cbor decoding error", chain |-> <<>>]
    ELSE [ok |-> FALSE, err |-> "Expecting x509 certificate in the x5chain to be a cbor encoded bytestring",
          chain |-> <<>>]

\* validate_x5chain with a fault: the array arm wraps the vector without the
\* NonEmptyVec check.
validate_x5chainUnchecked(x5chain, registry, now) ==
    IF x5chain.t = "bytes"
    THEN LET d == FromSliceVecU8(x5chain.bytes) IN
         IF ~d.ok THEN Decoded(FALSE, "cbor decoding error", <<>>, FALSE, <<>>)
         ELSE Decoded(TRUE, "", validate(<<d.v>>, registry, now), TRUE, <<d.v>>)
    ELSE IF x5chain.t = "array"
    THEN LET a == DecodeArray(x5chain.items, 1, <<>>) IN
         IF ~a.ok THEN Decoded(FALSE, a.err, <<>>, FALSE, <<>>)
         ELSE IF ~has_unique_elements(a.chain, 1, {})
         THEN Decoded(FALSE, "x5chain header contains at least one duplicate certificate",
                      <<>>, FALSE, <<>>)
         ELSE Decoded(TRUE, "", validate(a.chain, registry, now), TRUE, a.chain)
    ELSE Decoded(FALSE, "Expecting x509 certificate in the x5chain to be a cbor encoded bytestring",
                 <<>>, FALSE, <<>>)

validate_x5chain(x5chain, registry, now) ==
    IF x5chain.t = "bytes"
    THEN LET d == FromSliceVecU8(x5chain.bytes) IN
         IF ~d.ok THEN Decoded(FALSE, "cbor decoding error", <<>>, FALSE, <<>>)
         ELSE LET v == NonEmptyVecTryFrom(<<d.v>>) IN
              IF ~v.ok THEN Decoded(FALSE, "empty vector", <<>>, FALSE, <<>>)
              ELSE Decoded(TRUE, "", validate(v.v, registry, now), TRUE, v.v)
    ELSE IF x5chain.t = "array"
    THEN LET a == DecodeArray(x5chain.items, 1, <<>>) IN
         IF ~a.ok THEN Decoded(FALSE, a.err, <<>>, FALSE, <<>>)
         ELSE IF ~has_unique_elements(a.chain, 1, {})
         THEN Decoded(FALSE, "x5chain header contains at least one duplicate certificate",
                      <<>>, FALSE, <<>>)
         ELSE LET v == NonEmptyVecTryFrom(a.chain) IN
              IF ~v.ok THEN Decoded(FALSE, "empty vector", <<>>, FALSE, <<>>)
              ELSE Decoded(TRUE, "", validate(v.v, registry, now), TRUE, v.v)
    ELSE Decoded(FALSE, "Expecting x509 certificate in the x5chain to be a cbor encoded bytestring",
                 <<>>, FALSE, <<>>)

----------------------------------------------------------------------------
(* Builder.                                                                *)

\* The tail shared by with_pem and with_der once the octets are at hand:
\* Certificate::from_der, then cert.encode_to_vec(&mut vec![])?.to_der(),
\* then self.certs.push.  to_der is called on what encode_to_vec returns,
\* which is the Length of the encoding.
PushCertificate(certs, bytes, parseError) ==
    LET cert == CertificateFromDer(bytes) IN
    IF ~cert.ok THEN [ok |-> FALSE, err |-> parseError, certs |-> certs]
    ELSE [ok |-> TRUE, err |-> "",
          certs |-> Append(certs, LengthToDer(EncodeToVec(cert.cert, <<>>).length))]

\* Builder::with_pem
with_pem(certs, data) ==
    LET pem == PemDecodeVec(data) IN
    IF ~pem.ok THEN [ok |-> FALSE, err |-> "unable to parse pem", certs |-> certs]
    ELSE PushCertificate(certs, pem.bytes, "unable to parse certificate from der")

\* Builder::with_der
with_der(certs, data) ==
    PushCertificate(certs, data, "unable to parse certificate from der encoding")

\* Builder::with_pem_from_file / with_der_from_file: f.read_to_end, then delegate.
with_pem_from_file(certs, f) ==
    IF ~f.readable THEN [ok |-> FALSE, err |-> "io error", certs |-> certs]
    ELSE with_pem(certs, f.data)

with_der_from_file(certs, f) ==
    IF ~f.readable THEN [ok |-> FALSE, err |-> "io error", certs |-> certs]
    ELSE with_der(certs, f.data)

\* build with a fault: the emptiness check is missing.
buildUnchecked(certs) == [ok |-> TRUE, err |-> "", chain |-> certs]

\* Builder::build
build(certs) ==
    LET v == NonEmptyVecTryFrom(certs) IN
    IF v.ok THEN [ok |-> TRUE, err |-> "", chain |-> v.v]
    ELSE [ok |-> FALSE, err |-> "at least one certificate must be given to the builder",
          chain |-> <<>>]

----------------------------------------------------------------------------
(* Inputs.                                                                 *)

\* key 1, signed by key 1, valid from 0 to 2
Root1 == <<48, 4, 1, 1, 0, 2>>
\* key 2, signed by key 1, valid at 1 only
Leaf2 == <<48, 4, 2, 1, 1, 1>>
\* key 3 (not P-256), signed by key 3, valid at 0 only, one extension octet
Other3 == <<48, 5, 3, 3, 0, 0, 9>>
\* key 2, signature field that does not decode, notBefore after notAfter
NoSig == <<48, 4, 2, 0, 2, 0>>
\* content length that does not match
Malformed == <<48, 5, 1, 1, 0, 2>>
\* the DER length octet of a six-octet encoding
LenOctet == <<6>>
\* the CBOR array [6]
Wrapped == <<129, 6>>

Pem(der) == <<45>> \o der \o <<45>>

X509Pool == {Root1, Leaf2, Other3, NoSig, LenOctet, Wrapped}

RECURSIVE SeqsUpTo(_, _)
SeqsUpTo(S, n) ==
    IF n = 0 THEN {<<>>}
    ELSE LET shorter == SeqsUpTo(S, n - 1) IN
         shorter \cup {Append(s, x) : s \in {t \in shorter : Len(t) = n - 1}, x \in S}

Chains == SeqsUpTo(X509Pool, MaxChain) \ {<<>>}

DerInputs == {Root1, Other3, Malformed}
PemInputs == {Pem(Root1), Pem(Other3), Pem(Malformed), Root1}
PemFiles == {[readable |-> FALSE, data |-> <<>>], [readable |-> TRUE, data |-> Pem(Root1)]}
DerFiles == {[readable |-> FALSE, data |-> <<>>], [readable |-> TRUE, data |-> Root1]}

\* Array elements on the wire: the integer 42, the CBOR arrays of the octets
\* of Root1 and of Leaf2, Root1 as bare DER, and two encodings of [6].
WireElems ==
    {CborElem("integer", 42, <<>>),
     CborElem("bytes", 0, <<134, 24, 48, 4, 1, 1, 0, 2>>),
     CborElem("bytes", 0, <<134, 24, 48, 4, 2, 1, 1, 1>>),
     CborElem("bytes", 0, Root1),
     CborElem("bytes", 0, Wrapped),
     CborElem("bytes", 0, <<152, 1, 6>>)}

WireValues ==
    {IF e.t = "bytes" THEN CborBytes(e.bytes) ELSE CborInteger(e.int) : e \in WireElems}
    \cup {CborArray(s) : s \in SeqsUpTo(WireElems, MaxArray)}

Registries == {RegistryNone, RegistrySome({1}), RegistrySome({3}), RegistrySome({0, 1})}
Times == {1, 2}

----------------------------------------------------------------------------
(* State machine.                                                          *)

NoOut ==
    [op |-> "", ok |-> TRUE, err |-> "", errors |-> <<>>,
     validated |-> FALSE,       \* X5Chain::validate ran
     chain |-> <<>>,            \* validate_x5chain: the X5Chain it built
     registry |-> RegistryNone, now |-> 0,
     data |-> <<>>,             \* with_*: the certificate octets given (armor removed)
     before |-> <<>>,           \* with_*, build: Builder.certs before the call
     added |-> <<>>]            \* build: the certificates the with_* calls accepted

NoBuilder == [live |-> FALSE, certs |-> <<>>]

\* X5Chain::builder(): Builder::default()
FreshBuilder == [live |-> TRUE, certs |-> <<>>]

\* A run starts from one constructed object: a fresh Builder, a chain made by
\* X5Chain::from(NonEmptyVec<X509>), or an x5chain header value received
\* from a peer.
Init ==
    /\ added = <<>>
    /\ calls = <<>>
    /\ out = NoOut
    /\ \/ builder = FreshBuilder /\ chain = <<>> /\ wire = CborNull
       \/ builder = NoBuilder /\ chain \in Chains /\ wire = CborNull
       \/ builder = NoBuilder /\ chain = <<>> /\ wire \in WireValues

\* A with_* call takes the builder by value: Ok hands it back with one more
\* certificate, Err drops it.
With(op, r, der) ==
    /\ builder' = IF r.ok THEN [live |-> TRUE, certs |-> r.certs] ELSE NoBuilder
    /\ added' = IF r.ok THEN Append(added, CertificateToDer(CertificateFromDer(der).cert))
                ELSE <<>>
    /\ calls' = IF r.ok
                THEN Append(calls, [op |-> op,
                                    der |-> CertificateToDer(CertificateFromDer(der).cert)])
                ELSE <<>>
    /\ out' = [NoOut EXCEPT !.op = op, !.ok = r.ok, !.err = r.err,
                            !.data = der, !.before = builder.certs]
    /\ UNCHANGED <<chain, wire>>

WithPem(data) ==
    /\ builder.live
    /\ Len(builder.certs) < MaxCerts
    /\ With("with_pem", with_pem(builder.certs, data), PemDecodeVec(data).bytes)

WithDer(data) ==
    /\ builder.live
    /\ Len(builder.certs) < MaxCerts
    /\ With("with_der", with_der(builder.certs, data), data)

WithPemFromFile(f) ==
    /\ builder.live
    /\ Len(builder.certs) < MaxCerts
    /\ With("with_pem_from_file", with_pem_from_file(builder.certs, f),
            PemDecodeVec(f.data).bytes)

WithDerFromFile(f) ==
    /\ builder.live
    /\ Len(builder.certs) < MaxCerts
    /\ With("with_der_from_file", with_der_from_file(builder.certs, f), f.data)

\* Builder::build consumes the builder; Ok gives the chain at hand.
Build ==
    /\ builder.live
    /\ LET r == build(builder.certs) IN
       /\ chain' = IF r.ok THEN r.chain ELSE chain
       /\ out' = [NoOut EXCEPT !.op = "build", !.ok = r.ok, !.err = r.err,
                               !.before = builder.certs, !.added = added]
    /\ builder' = NoBuilder
    /\ added' = <<>>
    /\ UNCHANGED <<calls, wire>>

\* chain.into_cbor(): the value goes on the wire.
IntoCbor ==
    /\ chain # <<>>
    /\ wire' = into_cbor(chain)
    /\ out' = [NoOut EXCEPT !.op = "into_cbor"]
    /\ UNCHANGED <<builder, added, calls, chain>>

\* chain.validate(registry)
Validate(registry, now) ==
    /\ chain # <<>>
    /\ out' = [NoOut EXCEPT !.op = "validate", !.errors = validate(chain, registry, now),
                            !.validated = TRUE, !.registry = registry, !.now = now]
    /\ UNCHANGED <<builder, added, calls, chain, wire>>

\* validate_x5chain(wire, registry)
ValidateX5chain(registry, now) ==
    /\ wire # CborNull
    /\ LET r == validate_x5chain(wire, registry, now) IN
       out' = [NoOut EXCEPT !.op = "validate_x5chain", !.ok = r.ok, !.err = r.err,
                            !.errors = r.errors, !.validated = r.validated,
                            !.chain = r.chain, !.registry = registry, !.now = now]
    /\ UNCHANGED <<builder, added, calls, chain, wire>>

Next ==
    \/ \E data \in PemInputs : WithPem(data)
    \/ \E data \in DerInputs : WithDer(data)
    \/ \E f \in PemFiles : WithPemFromFile(f)
    \/ \E f \in DerFiles : WithDerFromFile(f)
    \/ Build
    \/ IntoCbor
    \/ \E registry \in Registries, now \in Times : Validate(registry, now)
    \/ \E registry \in Registries, now \in Times : ValidateX5chain(registry, now)

Spec == Init /\ [][Next]_vars

----------------------------------------------------------------------------
(* Properties.                                                             *)

\* The chain X5Chain::validate ran on in the last call.
ValidatedChain == IF out.op = "validate" THEN chain ELSE out.chain

\* The errors of the last call that one pass reported for position i.
ErrorsOf(pass, i) == SelectSeq(out.errors, LAMBDA e : e.pass = pass /\ e.idx = i)

PassRank(e) == CASE e.pass = "signature" -> 1 [] e.pass = "validity" -> 2 [] OTHER -> 3

\* C1: validate never short-circuits: whatever the chain and the registry,
\* its result is the errors of the signature pass in pair order, then those
\* of the validity pass in chain order, then those of the anchor pass for the
\* last certificate, each pass reporting all it found and nothing removed.
C1_AllPassesConcatenated ==
    out.validated =>
        LET c == ValidatedChain
            e == out.errors
            n == Len(c)
            parsed(i) == CertificateFromDer(c[i])
        IN  /\ \A j, k \in 1..Len(e) :
                   j < k => \/ PassRank(e[j]) < PassRank(e[k])
                            \/ PassRank(e[j]) = PassRank(e[k]) /\ e[j].idx <= e[k].idx
            /\ \A k \in 1..Len(e) :
                   \/ e[k].pass = "signature" /\ e[k].idx \in 1..(n - 1)
                   \/ e[k].pass = "validity" /\ e[k].idx \in 1..n
                   \/ e[k].pass = "anchor" /\ e[k].idx = n
            /\ \A i \in 1..(n - 1) :
                   Len(ErrorsOf("signature", i)) =
                       IF check_signature(c[i], c[i + 1]) = "" THEN 0 ELSE 1
            /\ \A i \in 1..n :
                   ErrorsOf("validity", i) =
                       IF parsed(i).ok THEN check_validity_period(parsed(i).cert, i, out.now)
                       ELSE <<ValidationError("validity", i, "DecodingError")>>
            /\ ErrorsOf("anchor", n) = AnchorPass(c, out.registry, <<>>)

\* C1 witness: a three-certificate chain validated with errors from all three passes.
C1_Witness ==
    /\ out.op = "validate"
    /\ Len(chain) = 3
    /\ \E k \in 1..Len(out.errors) : out.errors[k].pass = "signature"
    /\ \E k \in 1..Len(out.errors) : out.errors[k].pass = "validity"
    /\ \E k \in 1..Len(out.errors) : out.errors[k].pass = "anchor"

\* C2: for every adjacent pair i, the result of validate holds exactly one
\* signature error for pair i, the one check_signature returned, when
\* check_signature fails on it, and none when it passes, whatever happens to
\* the other pairs.
C2_OneErrorPerFailingPair ==
    out.validated =>
        \A i \in 1..(Len(ValidatedChain) - 1) :
            LET r == check_signature(ValidatedChain[i], ValidatedChain[i + 1]) IN
            ErrorsOf("signature", i) =
                IF r = "" THEN <<>> ELSE <<ValidationError("signature", i, r)>>

\* C2 witness: both pairs of a three-certificate chain fail and both are reported.
C2_Witness ==
    /\ out.validated
    /\ Len(ValidatedChain) = 3
    /\ check_signature(ValidatedChain[1], ValidatedChain[2]) # ""
    /\ check_signature(ValidatedChain[2], ValidatedChain[3]) # ""
    /\ Len(ErrorsOf("signature", 1)) = 1
    /\ Len(ErrorsOf("signature", 2)) = 1

NoAnchorError(i) == ValidationError("anchor", i, "No matching trust anchor found")

\* C3 as stated: validated without a registry, every chain gets a
\* "No matching trust anchor found" error from the anchor pass.
C3_AlwaysNoAnchorError ==
    (out.validated /\ ~out.registry.some) =>
        \E k \in 1..Len(out.errors) : out.errors[k] = NoAnchorError(Len(ValidatedChain))

\* C3 amended: validated without a registry, the anchor pass adds exactly one
\* error: "No matching trust anchor found" when the last certificate parses,
\* the parse error of the last certificate when it does not.
C3_NoRegistryAnchorError ==
    (out.validated /\ ~out.registry.some) =>
        LET n == Len(ValidatedChain) IN
        ErrorsOf("anchor", n) =
            IF CertificateFromDer(ValidatedChain[n]).ok
            THEN <<NoAnchorError(n)>>
            ELSE <<ValidationError("anchor", n, "DecodingError")>>

\* C3 witness: no registry, a last certificate that parses, errors from the
\* earlier passes, and the no-anchor error at the end of the result.
C3_Witness ==
    /\ out.validated
    /\ ~out.registry.some
    /\ CertificateFromDer(ValidatedChain[Len(ValidatedChain)]).ok
    /\ Len(out.errors) >= 2
    /\ out.errors[Len(out.errors)] = NoAnchorError(Len(ValidatedChain))

\* The wire value is an array two of whose entries are the same byte string.
HasDuplicateEntries ==
    /\ wire.t = "array"
    /\ \E i, j \in 1..Len(wire.items) :
           i < j /\ wire.items[i].t = "bytes" /\ wire.items[i] = wire.items[j]

DuplicateError == "x5chain header contains at least one duplicate certificate"

\* C4 as stated: an array with two byte-identical entries is rejected with
\* the duplicate-certificate error and validate does not run.
C4_DuplicateErrorReturned ==
    (out.op = "validate_x5chain" /\ HasDuplicateEntries) =>
        ~out.ok /\ out.err = DuplicateError /\ ~out.validated

\* The first entry of the wire array that is no byte string or whose content
\* does not decode; 0 when there is none.
FirstBadEntry ==
    LET bad == {i \in 1..Len(wire.items) :
                   \/ wire.items[i].t # "bytes"
                   \/ ~FromSliceVecU8(wire.items[i].bytes).ok}
    IN  IF bad = {} THEN 0 ELSE CHOOSE i \in bad : \A j \in bad : i <= j

\* C4 amended: an array with two byte-identical entries is rejected with a
\* terminal error and validate does not run, so no error list is produced;
\* the error is the duplicate-certificate error when every entry is a byte
\* string whose content decodes, and otherwise the error of the first entry
\* that is not a byte string or does not decode.
C4_DuplicatesRejected ==
    (out.op = "validate_x5chain" /\ HasDuplicateEntries) =>
        /\ ~out.ok
        /\ ~out.validated
        /\ out.errors = <<>>
        /\ out.err = IF FirstBadEntry = 0 THEN DuplicateError
                     ELSE IF wire.items[FirstBadEntry].t = "bytes" THEN "cbor decoding error"
                     ELSE "Expecting x509 certificate in the x5chain to be a cbor encoded bytestring"

\* C4 witness: two identical decodable entries after a different one, rejected as duplicates.
C4_Witness ==
    /\ out.op = "validate_x5chain"
    /\ HasDuplicateEntries
    /\ Len(wire.items) = 3
    /\ wire.items[1] # wire.items[2]
    /\ out.err = DuplicateError

\* C5: a value that is neither a byte string nor an array, and an array
\* holding an element that is not a byte string at any position, are rejected
\* with a terminal error and validate does not run.
C5_WrongShapeRejected ==
    (/\ out.op = "validate_x5chain"
     /\ \/ wire.t \notin {"bytes", "array"}
        \/ wire.t = "array" /\ \E i \in 1..Len(wire.items) : wire.items[i].t # "bytes")
    => ~out.ok /\ ~out.validated /\ out.errors = <<>>

\* C5 witness: an array whose last element alone is an integer, after two
\* distinct byte strings that decode, is rejected.
C5_Witness ==
    /\ out.op = "validate_x5chain"
    /\ wire.t = "array"
    /\ Len(wire.items) = 3
    /\ wire.items[3].t = "integer"
    /\ \A i \in 1..2 : wire.items[i].t = "bytes" /\ FromSliceVecU8(wire.items[i].bytes).ok
    /\ wire.items[1] # wire.items[2]
    /\ ~out.ok

\* C6: round trip: the decoder accepts c.into_cbor() and rebuilds c, for
\* every chain c of length 1 and every longer chain of distinct certificates.
C6_RoundTrip ==
    (/\ out.op = "validate_x5chain"
     /\ chain # <<>>
     /\ wire = into_cbor(chain)
     /\ \A i, j \in 1..Len(chain) : i # j => chain[i] # chain[j])
    => out.ok /\ out.chain = chain

\* The CBOR value the encoding rules give for a chain.
ExpectedCbor(c) ==
    IF Len(c) = 1
    THEN [t |-> "bytes", int |-> 0, bytes |-> c[1], items |-> <<>>]
    ELSE [t |-> "array", int |-> 0, bytes |-> <<>>,
          items |-> [i \in 1..Len(c) |-> [t |-> "bytes", int |-> 0, bytes |-> c[i]]]]

\* C7: into_cbor of a one-certificate chain is the byte string of its stored
\* octets, of a longer chain the array of the byte strings of its
\* certificates' stored octets in chain order; the chain is left unchanged.
C7_IntoCborShape ==
    [][out'.op = "into_cbor" => chain' = chain /\ wire' = ExpectedCbor(chain)]_vars

\* C7 witness: into_cbor has returned the array form for a chain of three.
C7_Witness ==
    /\ out.op = "into_cbor"
    /\ Len(chain) = 3
    /\ wire.t = "array"
    /\ Len(wire.items) = 3

\* C8: build succeeds exactly when a with_* call succeeded on the builder
\* before; on a builder without certificates it fails with "at least one
\* certificate must be given to the builder"; a chain it produces is not empty.
C8_BuildNeedsCertificate ==
    out.op = "build" =>
        /\ out.ok <=> Len(out.added) >= 1
        /\ ~out.ok => out.err = "at least one certificate must be given to the builder"
        /\ out.ok => Len(chain) >= 1 /\ chain = out.before

\* C8 witness: build has failed on a builder no with_* call succeeded on.
C8_Witness ==
    /\ out.op = "build"
    /\ ~out.ok
    /\ out.added = <<>>

WithOps == {"with_pem", "with_der", "with_pem_from_file", "with_der_from_file"}

\* C9: a successful with_* call appends exactly one certificate whose stored
\* octets are the canonical DER encoding of the decoded certificate.
C9_StoresCanonicalDer ==
    (out.op \in WithOps /\ out.ok) =>
        builder.certs =
            Append(out.before, CertificateToDer(CertificateFromDer(out.data).cert))

\* C10: a certificate of the chain that parses and whose validity window
\* excludes the current time has a validity error of its own in the result of
\* validate, whatever the signature pass, the anchor pass and the other
\* certificates report.
C10_ValidityErrorReported ==
    out.validated =>
        \A i \in 1..Len(ValidatedChain) :
            LET cert == CertificateFromDer(ValidatedChain[i]) IN
            (cert.ok /\ check_validity_period(cert.cert, i, out.now) # <<>>)
                => \E k \in 1..Len(out.errors) :
                       /\ out.errors[k].pass = "validity"
                       /\ out.errors[k].idx = i
                       /\ out.errors[k].msg \in {"Expired certificate", "Not yet valid certificate"}

\* C10 witness: the last of three certificates is out of its window, the
\* first pair fails its signature check, and the validity error is reported.
C10_Witness ==
    /\ out.validated
    /\ Len(ValidatedChain) = 3
    /\ check_signature(ValidatedChain[1], ValidatedChain[2]) # ""
    /\ CertificateFromDer(ValidatedChain[3]).ok
    /\ check_validity_period(CertificateFromDer(ValidatedChain[3]).cert, 3, out.now) # <<>>
    /\ Len(ErrorsOf("validity", 3)) >= 1

\* The chain at hand was built by build from one with_pem call whose
\* certificate is self-signed and within its validity window at the time
\* of the last call.
BuiltFromOneSelfSignedPem ==
    /\ ~builder.live
    /\ chain # <<>>
    /\ Len(calls) = 1
    /\ calls[1].op = "with_pem"
    /\ LET c == CertificateFromDer(calls[1].der).cert IN
       /\ c.sig = c.spki
       /\ c.notBefore <= out.now
       /\ out.now <= c.notAfter

\* C11: a chain built by builder().with_pem(cert).build() from one
\* well-formed self-signed certificate with valid dates and validated without
\* a registry yields exactly one error, "No matching trust anchor found".
C11_SelfSignedOnlyNoAnchor ==
    (out.op = "validate" /\ ~out.registry.some /\ BuiltFromOneSelfSignedPem)
        => out.errors = <<NoAnchorError(1)>>

\* C12: build after n successful with_* calls gives a chain of length n whose
\* i-th element is the certificate the i-th call added.
C12_ChainIsAddedCertificates ==
    (out.op = "build" /\ out.ok) =>
        /\ Len(chain) = Len(out.added)
        /\ \A i \in 1..Len(chain) : chain[i] = out.added[i]

\* C13: validate only ever runs on a chain of at least one certificate,
\* however the chain was made, and never reports "Empty certificate chain";
\* the empty array gets past the uniqueness check and is then rejected with a
\* terminal error before validate runs.
C13_ValidateNeverOnEmptyChain ==
    /\ out.validated =>
           /\ Len(ValidatedChain) >= 1
           /\ \A k \in 1..Len(out.errors) : out.errors[k].msg # "Empty certificate chain"
    /\ (out.op = "validate_x5chain" /\ wire.t = "array" /\ wire.items = <<>>) =>
           /\ ~out.ok
           /\ ~out.validated
           /\ out.errors = <<>>
           /\ out.err = "empty vector"

\* C13 witness: the empty array has been given to validate_x5chain and rejected.
C13_Witness ==
    /\ out.op = "validate_x5chain"
    /\ wire.t = "array"
    /\ wire.items = <<>>
    /\ ~out.ok

====
